---- MODULE Spec2Model ----
(***************************************************************************)
(* State-machine model of the three contracts of the repository:          *)
(*   DoctorManagement   blockchain/contracts/doctorcontract.sol           *)
(*   PatientManagement  Desktop App/Contracts/patientcontract.sol         *)
(*   HealthcareAudit    unnamed/part_001                                  *)
(* One action per external function.  A transaction whose require fails   *)
(* (or that panics) reverts: the contract state is left as it was and     *)
(* only the observation variable "last" records the call and its error.   *)
(* The three contracts are deployed separately, share no storage and      *)
(* never call one another; a run drives one of them ("running") from the  *)
(* common deployment state.  SpecCallers and SpecSystem drive them        *)
(* together on small inputs; SpecReentry runs revokePatientAccess         *)
(* statement by statement ("frame").                                      *)
(***************************************************************************)
EXTENDS Integers, Sequences, FiniteSets, TLC

VARIABLES
    admin,                \* DoctorManagement.admin
    doctors,              \* DoctorManagement.doctors
    doctorAddresses,      \* DoctorManagement.doctorAddresses
    doctorPatients,       \* DoctorManagement.doctorPatients
    doctorPatientAccess,  \* DoctorManagement.doctorPatientAccess
    patientAdmin,         \* PatientManagement.admin
    patients,             \* PatientManagement.patients
    patientRecords,       \* PatientManagement.patientRecords
    recordIndexes,        \* PatientManagement.recordIndexes
    auditTrail,           \* HealthcareAudit.auditTrail
    now,                  \* block.timestamp of the transaction being mined
    running,              \* the contract this run sends its transactions to
    frame,                \* the revokePatientAccess call in progress, statement by statement
    last                  \* the last transaction: function, sender, arguments, outcome

doctorVars == <<admin, doctors, doctorAddresses, doctorPatients, doctorPatientAccess>>
patientVars == <<patientAdmin, patients, patientRecords, recordIndexes>>
auditVars == <<auditTrail>>
vars == <<doctorVars, patientVars, auditVars, now, running, frame, last>>

----------------------------------------------------------------------------
(* Inputs and bounds *)

Contracts == {"DoctorManagement", "PatientManagement", "HealthcareAudit"}

\* The accounts that send transactions and appear as arguments.
Addr == {"A0", "A1", "A2"}
\* The account that deploys the contracts (msg.sender of the constructors).
Deployer == "A0"
\* Placeholder for an argument position a function does not have.
NoAddr == "-"
\* address(0), the value of an address never assigned.
ZeroAddress == "0x0"

\* The (username, role) pairs given to the two register functions.
Profiles == {<<"alice", "doctor">>, <<"bob", "patient">>}

\* The model stops granting when this many grants exist over all doctors.
MaxGrants == 2

\* The content hashes given as _ipfsHash; _previousVersion is one of them
\* or the empty string.
Hashes == {"Qm1", "Qm2"}
NoHash == ""
PrevHashes == Hashes \cup {NoHash}

\* The (fileType, fileName, title, resume) tuples given to addMedicalRecord.
Metas == {<<"pdf", "f.pdf", "Blood Test", "desc">>}

\* The accounts that take part in the record store and in the audit
\* ledger: the deployer and one other account.
SmallAddr == {"A0", "A1"}

\* The accounts that send addMedicalRecord: one that is neither the admin
\* nor, in the record store's own runs, a registered doctor.
Writers == {"A1"}

\* The accounts that send addMedicalRecord when the callers' standing in
\* DoctorManagement varies: the admin, a registered doctor-to-be and an
\* account no contract ever registers.
Callers == Addr
\* Those runs stop storing when this many records exist.
MaxCallerRecords == 2

\* The runs that drive all three contracts together stop logging when the
\* audit trail holds this many entries.
MaxSystemAudit == 1

\* The (actionType, details) pairs given to addAuditLog.
AuditTags == {<<"ACCESS_GRANTED", "granted">>, <<"", "">>}

\* The model stops logging when the audit trail holds this many entries.
MaxAudit == 3

\* block.timestamp stops advancing at this value.
MaxTime == 1

\* The model stops adding records when this many exist over all patients.
MaxRecords == 4

\* The outcome of a transaction that did not revert.
OK == "ok"

\* The revert reasons of the contracts.
OnlyAdmin == "Only admin can call this function"
OnlyPatient == "Only patient can revoke access"

----------------------------------------------------------------------------
(* Helpers over sequences *)

Range(s) == {s[i] : i \in DOMAIN s}

Occurrences(s, x) == Cardinality({i \in DOMAIN s : s[i] = x})

\* The least index of s holding x, 0 when there is none (the loop's exit).
FirstIndex(s, x) ==
    IF x \in Range(s) THEN CHOOSE i \in DOMAIN s :
                               s[i] = x /\ \A j \in DOMAIN s : s[j] = x => i <= j
    ELSE 0

\* The sum of the lengths of the sequences f[x], x in S.
RECURSIVE SumLen(_, _)
SumLen(f, S) == IF S = {} THEN 0
                ELSE LET x == CHOOSE y \in S : TRUE
                     IN  Len(f[x]) + SumLen(f, S \ {x})

----------------------------------------------------------------------------
(* DoctorManagement *)

Doctor(username, role, isRegistered) ==
    [username |-> username, role |-> role, isRegistered |-> isRegistered]

\* The value a mapping returns for a key never written.
NoDoctor == Doctor("", "", FALSE)

Tx(op, sender, a, b, err) ==
    [op |-> op, sender |-> sender, a |-> a, b |-> b, err |-> err]

\* Variant: any registered doctor passes for the admin.
onlyAdminOrRegistered(sender) == sender = admin \/ doctors[sender].isRegistered

\* modifier onlyAdmin
onlyAdmin(sender) == sender = admin

\* Variant: the require on msg.sender is missing.
RevokeErrorNoSenderCheck(sender, d, p) ==
    IF ~doctors[d].isRegistered THEN "Doctor not registered"
    ELSE IF ~doctorPatientAccess[d][p] THEN "Access not granted"
    ELSE "ok"

\* Variant: the require on the access flag is missing.
RevokeErrorNoFlagCheck(sender, d, p) ==
    IF ~doctors[d].isRegistered THEN "Doctor not registered"
    ELSE IF sender # p THEN "Only patient can revoke access"
    ELSE "ok"

\* Variant: the require on msg.sender comes before the one on the flag.
RevokeErrorSenderFirst(sender, d, p) ==
    IF ~doctors[d].isRegistered THEN "Doctor not registered"
    ELSE IF sender # p THEN "Only patient can revoke access"
    ELSE IF ~doctorPatientAccess[d][p] THEN "Access not granted"
    ELSE "ok"

\* The three require statements of revokePatientAccess, in source order:
\* the message of the first one that fails, OK when all pass.
RevokeError(sender, d, p) ==
    IF ~doctors[d].isRegistered THEN "Doctor not registered"
    ELSE IF ~doctorPatientAccess[d][p] THEN "Access not granted"
    ELSE IF sender # p THEN "Only patient can revoke access"
    ELSE OK

\* Variant: the require on the doctor's registration is missing.
GrantErrorAnyDoctor(d, p) ==
    IF doctorPatientAccess[d][p] THEN "Access already granted" ELSE "ok"

\* Variant: the require on the flag is missing.
GrantErrorNoFlagCheck(d, p) ==
    IF ~doctors[d].isRegistered THEN "Doctor not registered" ELSE "ok"

\* The two require statements of addPatientAccess.
GrantError(d, p) ==
    IF ~doctors[d].isRegistered THEN "Doctor not registered"
    ELSE IF doctorPatientAccess[d][p] THEN "Access already granted"
    ELSE OK

\* Variant: the require on isRegistered is missing.
RegisterDoctorErrorNoDup(sender, d) ==
    IF ~onlyAdmin(sender) THEN "Only admin can call this function" ELSE "ok"

\* onlyAdmin and the require of registerDoctor.
RegisterDoctorError(sender, d) ==
    IF ~onlyAdmin(sender) THEN "Only admin can call this function"
    ELSE IF doctors[d].isRegistered THEN "Doctor already registered"
    ELSE OK

\* Variant: the loop never finds the patient.
SwapAndPopKeep(list, p) == list

\* Variant: the last element is copied into the slot but not popped.
SwapAndPopNoPop(list, p) ==
    IF \E i \in DOMAIN list : list[i] = p
    THEN [list EXCEPT ![CHOOSE i \in DOMAIN list : list[i] = p] = list[Len(list)]]
    ELSE list

\* Variant: the whole list is dropped.
SwapAndPopClear(list, p) == <<>>

\* Variant: the first element is copied into the slot of p and the first
\* slot is removed.
SwapAndPopHead(list, p) ==
    LET i == FirstIndex(list, p)
    IN  IF i = 0 THEN list
        ELSE Tail([list EXCEPT ![i] = list[1]])

\* The loop of revokePatientAccess: at the first slot holding p, copy the
\* last element into it, pop the last slot and stop.
SwapAndPop(list, p) ==
    LET i == FirstIndex(list, p)
        n == Len(list)
    IN  IF i = 0 THEN list
        ELSE SubSeq([list EXCEPT ![i] = list[n]], 1, n - 1)

\* View functions.
isAuthorized(d, p) == doctorPatientAccess[d][p]
getAuthorizedPatients(d) == doctorPatients[d]
getAllDoctors == doctorAddresses

\* Variant: the require is missing; the mapping's default is returned.
getDoctorNoRequire(d) ==
    [err |-> "ok", username |-> doctors[d].username, role |-> doctors[d].role]

\* getDoctor: the require, then (username, role).
getDoctor(d) ==
    IF doctors[d].isRegistered
    THEN [err |-> OK, username |-> doctors[d].username, role |-> doctors[d].role]
    ELSE [err |-> "Doctor not registered", username |-> "", role |-> ""]

\* Variant: the push to doctorAddresses is missing.
registerDoctorNoPush(sender, d, username, role) ==
    LET err == RegisterDoctorError(sender, d)
    IN  /\ last' = Tx("registerDoctor", sender, d, NoAddr, err)
        /\ IF err = OK
           THEN /\ doctors' = [doctors EXCEPT ![d] = Doctor(username, role, TRUE)]
                /\ doctorAddresses' = doctorAddresses
           ELSE UNCHANGED <<doctors, doctorAddresses>>
        /\ UNCHANGED <<admin, doctorPatients, doctorPatientAccess>>
        /\ UNCHANGED <<patientVars, auditVars, now, running, frame>>

\* Variant: a successful registration hands the admin role to the new doctor.
registerDoctorHandsOver(sender, d, username, role) ==
    LET err == RegisterDoctorError(sender, d)
    IN  /\ last' = Tx("registerDoctor", sender, d, NoAddr, err)
        /\ IF err = OK
           THEN /\ doctors' = [doctors EXCEPT ![d] = Doctor(username, role, TRUE)]
                /\ doctorAddresses' = Append(doctorAddresses, d)
                /\ admin' = d
           ELSE UNCHANGED <<admin, doctors, doctorAddresses>>
        /\ UNCHANGED <<doctorPatients, doctorPatientAccess>>
        /\ UNCHANGED <<patientVars, auditVars, now, running, frame>>

registerDoctor(sender, d, username, role) ==
    LET err == RegisterDoctorError(sender, d)
    IN  /\ last' = Tx("registerDoctor", sender, d, NoAddr, err)
        /\ IF err = OK
           THEN /\ doctors' = [doctors EXCEPT ![d] = Doctor(username, role, TRUE)]
                /\ doctorAddresses' = Append(doctorAddresses, d)
           ELSE UNCHANGED <<doctors, doctorAddresses>>
        /\ UNCHANGED <<admin, doctorPatients, doctorPatientAccess>>
        /\ UNCHANGED <<patientVars, auditVars, now, running, frame>>

\* Variant: the flag is set and the push is missing.
addPatientAccessNoPush(sender, d, p) ==
    LET err == GrantError(d, p)
    IN  /\ last' = Tx("addPatientAccess", sender, d, p, err)
        /\ IF err = OK
           THEN /\ doctorPatients' = doctorPatients
                /\ doctorPatientAccess' = [doctorPatientAccess EXCEPT ![d][p] = TRUE]
           ELSE UNCHANGED <<doctorPatients, doctorPatientAccess>>
        /\ UNCHANGED <<admin, doctors, doctorAddresses>>
        /\ UNCHANGED <<patientVars, auditVars, now, running, frame>>

addPatientAccess(sender, d, p) ==
    LET err == GrantError(d, p)
    IN  /\ last' = Tx("addPatientAccess", sender, d, p, err)
        /\ IF err = OK
           THEN /\ doctorPatients' = [doctorPatients EXCEPT ![d] = Append(@, p)]
                /\ doctorPatientAccess' = [doctorPatientAccess EXCEPT ![d][p] = TRUE]
           ELSE UNCHANGED <<doctorPatients, doctorPatientAccess>>
        /\ UNCHANGED <<admin, doctors, doctorAddresses>>
        /\ UNCHANGED <<patientVars, auditVars, now, running, frame>>

\* Variant: the revoke also deactivates the records the doctor stored for
\* the patient.
revokePatientAccessPurging(sender, d, p) ==
    LET err == IF ~doctors[d].isRegistered THEN "Doctor not registered"
               ELSE IF ~doctorPatientAccess[d][p] THEN "Access not granted"
               ELSE IF sender # p THEN "Only patient can revoke access"
               ELSE "ok"
    IN  /\ last' = Tx("revokePatientAccess", sender, d, p, err)
        /\ IF err = "ok"
           THEN /\ doctorPatientAccess' = [doctorPatientAccess EXCEPT ![d][p] = FALSE]
                /\ doctorPatients' =
                      [doctorPatients EXCEPT
                          ![d] = SelectSeq(@, LAMBDA x : x # p)]
                /\ patientRecords' =
                      [patientRecords EXCEPT
                          ![p] = [i \in DOMAIN @ |->
                                    IF @[i].doctor = d
                                    THEN [@[i] EXCEPT !.isActive = FALSE] ELSE @[i]]]
           ELSE UNCHANGED <<doctorPatients, doctorPatientAccess, patientRecords>>
        /\ UNCHANGED <<admin, doctors, doctorAddresses>>
        /\ UNCHANGED <<patientAdmin, patients, recordIndexes>>
        /\ UNCHANGED <<auditVars, now, running, frame>>

\* Variant: the flag is not written before the loop.
ClearFlagSkipped(access, d, p) == access

\* Variant: the patient's flag is cleared for every doctor.
ClearFlagAllDoctors(access, d, p) == [x \in Addr |-> [access[x] EXCEPT ![p] = FALSE]]

\* doctorPatientAccess[_doctorAddress][_patientAddress] = false
ClearFlag(access, d, p) == [access EXCEPT ![d][p] = FALSE]

revokePatientAccess(sender, d, p) ==
    LET err == RevokeError(sender, d, p)
    IN  /\ last' = Tx("revokePatientAccess", sender, d, p, err)
        /\ IF err = OK
           THEN /\ doctorPatientAccess' = ClearFlag(doctorPatientAccess, d, p)
                /\ doctorPatients' = [doctorPatients EXCEPT ![d] = SwapAndPop(@, p)]
           ELSE UNCHANGED <<doctorPatients, doctorPatientAccess>>
        /\ UNCHANGED <<admin, doctors, doctorAddresses>>
        /\ UNCHANGED <<patientVars, auditVars, now, running, frame>>

\* revokePatientAccess statement by statement, with the callback of
\* ReentrancyAttacker trying to re-enter it.

\* attackCount < 3: the callback re-enters at most this often per attack.
MaxAttack == 3

\* The statement-by-statement runs stop granting when this many grants
\* exist over all doctors.
MaxReentryGrants == 3

\* No call is in progress.
NoFrame ==
    [pc |-> "idle", sender |-> NoAddr, d |-> NoAddr, p |-> NoAddr, i |-> 0,
     before |-> <<>>, attempts |-> <<>>]

\* Variant: the first element is copied into the slot.
SwapInFirst(list, i) == [list EXCEPT ![i + 1] = list[1]]

\* patients[i] = patients[patients.length - 1] (i counts from 0)
SwapIn(list, i) == [list EXCEPT ![i + 1] = list[Len(list)]]

\* The three requires. A failing one reverts the call; when all pass the
\* body starts, before holding the doctor's list as it was on entry.
RevokeEnter(sender, d, p) ==
    LET err == RevokeError(sender, d, p)
    IN  /\ frame = NoFrame
        /\ IF err = OK
           THEN /\ frame' = [pc |-> "flag", sender |-> sender, d |-> d, p |-> p,
                             i |-> 0, before |-> doctorPatients[d], attempts |-> <<>>]
                /\ UNCHANGED last
           ELSE /\ last' = Tx("revokePatientAccess", sender, d, p, err)
                /\ UNCHANGED frame
        /\ UNCHANGED <<doctorVars, patientVars, auditVars, now, running>>

\* The write of the flag, the first statement after the requires.
RevokeClearFlag ==
    /\ frame.pc = "flag"
    /\ doctorPatientAccess' = ClearFlag(doctorPatientAccess, frame.d, frame.p)
    /\ frame' = [frame EXCEPT !.pc = "loop", !.i = 0]
    /\ UNCHANGED <<admin, doctors, doctorAddresses, doctorPatients>>
    /\ UNCHANGED <<patientVars, auditVars, now, running, last>>

\* One pass of the for loop: leave it when i reaches the length, copy the
\* last element into slot i when that slot holds the patient, else i++.
RevokeLoop ==
    /\ frame.pc = "loop"
    /\ LET patientsList == doctorPatients[frame.d]
       IN  IF frame.i >= Len(patientsList)
           THEN /\ frame' = [frame EXCEPT !.pc = "emit"]
                /\ UNCHANGED doctorPatients
           ELSE IF patientsList[frame.i + 1] = frame.p
           THEN /\ doctorPatients' =
                      [doctorPatients EXCEPT ![frame.d] = SwapIn(@, frame.i)]
                /\ frame' = [frame EXCEPT !.pc = "pop"]
           ELSE /\ frame' = [frame EXCEPT !.i = @ + 1]
                /\ UNCHANGED doctorPatients
    /\ UNCHANGED <<admin, doctors, doctorAddresses, doctorPatientAccess>>
    /\ UNCHANGED <<patientVars, auditVars, now, running, last>>

\* patients.pop(); break
RevokePop ==
    /\ frame.pc = "pop"
    /\ doctorPatients' =
          [doctorPatients EXCEPT ![frame.d] = SubSeq(@, 1, Len(@) - 1)]
    /\ frame' = [frame EXCEPT !.pc = "emit"]
    /\ UNCHANGED <<admin, doctors, doctorAddresses, doctorPatientAccess>>
    /\ UNCHANGED <<patientVars, auditVars, now, running, last>>

\* emit PatientAccessRevoked: the call returns.
RevokeEmit ==
    /\ frame.pc = "emit"
    /\ last' = Tx("revokePatientAccess", frame.sender, frame.d, frame.p, OK)
    /\ frame' = [frame EXCEPT !.pc = "done"]
    /\ UNCHANGED <<doctorVars, patientVars, auditVars, now, running>>

\* The transaction is mined; the next one can be sent.
RevokeReturn ==
    /\ frame.pc = "done"
    /\ frame' = NoFrame
    /\ UNCHANGED <<doctorVars, patientVars, auditVars, now, running, last>>

\* The callback of ReentrancyAttacker, taking control after any statement
\* of the body: try target.revokePatientAccess(doctorAddr, patientAddr) {}
\* catch {}. The inner call runs whole on the state it finds, msg.sender
\* being the account that sent the outer call; its outcome is kept in
\* attempts.
Reenter ==
    /\ frame.pc \in {"loop", "pop", "emit"}
    /\ Len(frame.attempts) < MaxAttack
    /\ LET err == RevokeError(frame.sender, frame.d, frame.p)
       IN  /\ frame' = [frame EXCEPT !.attempts = Append(@, err)]
           /\ IF err = OK
              THEN /\ doctorPatientAccess' =
                         ClearFlag(doctorPatientAccess, frame.d, frame.p)
                   /\ doctorPatients' =
                         [doctorPatients EXCEPT ![frame.d] = SwapAndPop(@, frame.p)]
              ELSE UNCHANGED <<doctorPatients, doctorPatientAccess>>
    /\ UNCHANGED <<admin, doctors, doctorAddresses>>
    /\ UNCHANGED <<patientVars, auditVars, now, running, last>>

\* The number of grants held over all doctors.
TotalGrants == SumLen(doctorPatients, Addr)

RegisterDoctor == \E sender \in Addr, d \in Addr, prof \in Profiles :
                      registerDoctor(sender, d, prof[1], prof[2])
AddPatientAccess == \E sender \in Addr, d \in Addr, p \in Addr :
                        /\ GrantError(d, p) = OK => TotalGrants < MaxGrants
                        /\ addPatientAccess(sender, d, p)
RevokePatientAccess == \E sender \in Addr, d \in Addr, p \in Addr :
                           revokePatientAccess(sender, d, p)

DoctorNext == RegisterDoctor \/ AddPatientAccess \/ RevokePatientAccess

----------------------------------------------------------------------------
(* PatientManagement *)

Patient(username, role, isRegistered) ==
    [username |-> username, role |-> role, isRegistered |-> isRegistered]

NoPatient == Patient("", "", FALSE)

MedicalRecord(ipfsHash, fileType, fileName, title, resume, timestamp, doctor, isActive, previousVersion) ==
    [ipfsHash |-> ipfsHash, fileType |-> fileType, fileName |-> fileName,
     title |-> title, resume |-> resume, timestamp |-> timestamp,
     doctor |-> doctor, isActive |-> isActive, previousVersion |-> previousVersion]

\* modifier onlyAdmin of PatientManagement
onlyPatientAdmin(sender) == sender = patientAdmin

\* Variant: the require on isRegistered is missing.
RegisterPatientErrorNoDup(sender, p) ==
    IF ~onlyPatientAdmin(sender) THEN "Only admin can call this function" ELSE "ok"

\* Variant: an address registered as a doctor is refused as a patient.
RegisterPatientErrorNotDoctor(sender, p) ==
    IF ~onlyPatientAdmin(sender) THEN "Only admin can call this function"
    ELSE IF patients[p].isRegistered THEN "Patient already registered"
    ELSE IF doctors[p].isRegistered THEN "Doctor cannot be a patient"
    ELSE "ok"

\* onlyAdmin and the require of registerPatient.
RegisterPatientError(sender, p) ==
    IF ~onlyPatientAdmin(sender) THEN "Only admin can call this function"
    ELSE IF patients[p].isRegistered THEN "Patient already registered"
    ELSE OK

\* uint256 oldIndex = recordIndexes[_previousVersion]: the mapping is keyed by
\* the hash alone and yields 0 for a hash never written.
OldIndex(p, previousVersion) == recordIndexes[previousVersion]

\* Variant: the array access is not bounds-checked.
AddRecordErrorUnchecked(p, previousVersion) ==
    IF ~patients[p].isRegistered THEN "Patient not registered" ELSE "ok"

\* Variant: the require on the patient's registration is missing.
AddRecordErrorAnyPatient(p, previousVersion) ==
    IF /\ previousVersion # NoHash
       /\ OldIndex(p, previousVersion) >= Len(patientRecords[p])
    THEN "Panic(0x32)"
    ELSE "ok"

\* Variant: a record is accepted only for a patient some doctor holds a
\* grant for.
AddRecordErrorNeedsGrant(p, previousVersion) ==
    IF ~patients[p].isRegistered THEN "Patient not registered"
    ELSE IF \A d \in Addr : ~doctorPatientAccess[d][p] THEN "Access not granted"
    ELSE "ok"

\* The require of addMedicalRecord, then the bounds check of
\* patientRecords[_patientAddress][oldIndex], which panics with code 0x32.
AddRecordError(p, previousVersion) ==
    IF ~patients[p].isRegistered THEN "Patient not registered"
    ELSE IF /\ previousVersion # NoHash
            /\ OldIndex(p, previousVersion) >= Len(patientRecords[p])
         THEN "Panic(0x32)"
    ELSE OK

\* Variant: the flag of the old version is flipped.
DeactivateToggle(records, oldIndex) == [records EXCEPT ![oldIndex + 1].isActive = ~@]

\* Variant: the old version is left active.
DeactivateNone(records, oldIndex) == records

\* patientRecords[_patientAddress][oldIndex].isActive = false (oldIndex counts from 0).
Deactivate(records, oldIndex) == [records EXCEPT ![oldIndex + 1].isActive = FALSE]

\* Variant: the deactivation hits the record just pushed instead of the
\* old version.
RecordsAfterAddNewInactive(sender, p, ipfsHash, meta, previousVersion) ==
    LET pushed == Append(patientRecords[p],
                         MedicalRecord(ipfsHash, meta[1], meta[2], meta[3], meta[4],
                                       now, sender, TRUE, previousVersion))
    IN  IF previousVersion # NoHash
        THEN Deactivate(pushed, Len(pushed) - 1)
        ELSE pushed

\* The record list of p after the optional deactivation and the push.
RecordsAfterAdd(sender, p, ipfsHash, meta, previousVersion) ==
    LET old == IF previousVersion # NoHash
               THEN Deactivate(patientRecords[p], OldIndex(p, previousVersion))
               ELSE patientRecords[p]
    IN  Append(old, MedicalRecord(ipfsHash, meta[1], meta[2], meta[3], meta[4],
                                  now, sender, TRUE, previousVersion))

\* Variant: the old version is deactivated in every patient's list that
\* is long enough to have the index.
addMedicalRecordAllLists(sender, p, ipfsHash, meta, previousVersion) ==
    LET err == AddRecordError(p, previousVersion)
        oldIndex == OldIndex(p, previousVersion)
    IN  /\ last' = Tx("addMedicalRecord", sender, p, NoAddr, err)
        /\ IF err = OK
           THEN /\ patientRecords' =
                      [q \in DOMAIN patientRecords |->
                          IF q = p
                          THEN RecordsAfterAdd(sender, p, ipfsHash, meta, previousVersion)
                          ELSE IF previousVersion # NoHash /\ oldIndex < Len(patientRecords[q])
                               THEN Deactivate(patientRecords[q], oldIndex)
                               ELSE patientRecords[q]]
                /\ recordIndexes' =
                      [recordIndexes EXCEPT ![ipfsHash] = Len(patientRecords'[p]) - 1]
           ELSE UNCHANGED <<patientRecords, recordIndexes>>
        /\ UNCHANGED <<patientAdmin, patients>>
        /\ UNCHANGED <<doctorVars, auditVars, now, running, frame>>

registerPatient(sender, p, username, role) ==
    LET err == RegisterPatientError(sender, p)
    IN  /\ last' = Tx("registerPatient", sender, p, NoAddr, err)
        /\ IF err = OK
           THEN patients' = [patients EXCEPT ![p] = Patient(username, role, TRUE)]
           ELSE UNCHANGED patients
        /\ UNCHANGED <<patientAdmin, patientRecords, recordIndexes>>
        /\ UNCHANGED <<doctorVars, auditVars, now, running, frame>>

addMedicalRecord(sender, p, ipfsHash, meta, previousVersion) ==
    LET err == AddRecordError(p, previousVersion)
    IN  /\ last' = Tx("addMedicalRecord", sender, p, NoAddr, err)
        /\ IF err = OK
           THEN /\ patientRecords' =
                      [patientRecords EXCEPT
                          ![p] = RecordsAfterAdd(sender, p, ipfsHash, meta, previousVersion)]
                /\ recordIndexes' =
                      [recordIndexes EXCEPT ![ipfsHash] = Len(patientRecords'[p]) - 1]
           ELSE UNCHANGED <<patientRecords, recordIndexes>>
        /\ UNCHANGED <<patientAdmin, patients>>
        /\ UNCHANGED <<doctorVars, auditVars, now, running, frame>>

\* getPatient: the require, then (username, role).
getPatient(p) ==
    IF patients[p].isRegistered
    THEN [err |-> OK, username |-> patients[p].username, role |-> patients[p].role]
    ELSE [err |-> "Patient not registered", username |-> "", role |-> ""]

\* getMedicalRecords: the require, then the stored array.
getMedicalRecords(p) ==
    IF patients[p].isRegistered
    THEN [err |-> OK, records |-> patientRecords[p]]
    ELSE [err |-> "Patient not registered", records |-> <<>>]

\* The first loop of getActiveRecords: i runs over the array from 0 and
\* the counter goes up at each index whose entry is marked.
RECURSIVE CountLoop(_, _, _)
CountLoop(marks, i, count) ==
    IF i >= Len(marks) THEN count
    ELSE CountLoop(marks, i + 1, IF marks[i + 1] THEN count + 1 ELSE count)

\* Variant: the marked entries are written from the last slot downwards.
RECURSIVE CopyLoopDownwards(_, _, _, _, _)
CopyLoopDownwards(list, marks, i, currentIndex, result) ==
    IF i >= Len(list) THEN result
    ELSE IF marks[i + 1]
         THEN CopyLoopDownwards(list, marks, i + 1, currentIndex + 1,
                                [result EXCEPT ![Len(result) - currentIndex] = list[i + 1]])
         ELSE CopyLoopDownwards(list, marks, i + 1, currentIndex, result)

\* The second loop: result[currentIndex] = list[i]; currentIndex++ at each
\* index whose entry is marked.
RECURSIVE CopyLoop(_, _, _, _, _)
CopyLoop(list, marks, i, currentIndex, result) ==
    IF i >= Len(list) THEN result
    ELSE IF marks[i + 1]
         THEN CopyLoop(list, marks, i + 1, currentIndex + 1,
                       [result EXCEPT ![currentIndex + 1] = list[i + 1]])
         ELSE CopyLoop(list, marks, i + 1, currentIndex, result)

\* new T[](count) filled by the second loop; zero is the value of a fresh slot.
TwoPassFilter(list, marks, zero) ==
    CopyLoop(list, marks, 0, 0, [k \in 1..CountLoop(marks, 0, 0) |-> zero])

\* A memory slot of type MedicalRecord before it is assigned.
ZeroRecord == MedicalRecord("", "", "", "", "", 0, ZeroAddress, FALSE, "")

\* getActiveRecords: the require, then the two loops over isActive.
getActiveRecords(p) ==
    IF patients[p].isRegistered
    THEN [err |-> OK,
          records |-> TwoPassFilter(patientRecords[p],
                                    [i \in DOMAIN patientRecords[p] |->
                                        patientRecords[p][i].isActive],
                                    ZeroRecord)]
    ELSE [err |-> "Patient not registered", records |-> <<>>]

\* The number of records held over all patients.
TotalRecords == SumLen(patientRecords, Addr)

RegisterPatient == \E sender \in SmallAddr, p \in SmallAddr, prof \in Profiles :
                       registerPatient(sender, p, prof[1], prof[2])
AddMedicalRecord ==
    \E sender \in Writers, p \in SmallAddr, ipfsHash \in Hashes, meta \in Metas,
       previousVersion \in PrevHashes :
        /\ AddRecordError(p, previousVersion) = OK => TotalRecords < MaxRecords
        /\ addMedicalRecord(sender, p, ipfsHash, meta, previousVersion)

PatientNext == RegisterPatient \/ AddMedicalRecord

----------------------------------------------------------------------------
(* HealthcareAudit *)

\* Variant: actor and subject are stored in each other's field.
AuditRecordSwapped(actor, actionType, subject, details, timestamp) ==
    [actor |-> subject, actionType |-> actionType, subject |-> actor,
     details |-> details, timestamp |-> timestamp]

AuditRecord(actor, actionType, subject, details, timestamp) ==
    [actor |-> actor, actionType |-> actionType, subject |-> subject,
     details |-> details, timestamp |-> timestamp]

\* Variant: the new entry is put in front.
PushAuditFront(trail, record) == <<record>> \o trail

\* auditTrail.push(newRecord)
PushAudit(trail, record) == Append(trail, record)

addAuditLog(sender, actor, actionType, subject, details) ==
    /\ last' = Tx("addAuditLog", sender, actor, subject, OK)
    /\ auditTrail' = PushAudit(auditTrail,
                                AuditRecord(actor, actionType, subject, details, now))
    /\ UNCHANGED <<doctorVars, patientVars, now, running, frame>>

getAuditTrail == auditTrail

\* A memory slot of type AuditRecord before it is assigned.
ZeroAuditRecord == AuditRecord(ZeroAddress, "", ZeroAddress, "", 0)

\* getAuditTrailByActor: the count loop, new AuditRecord[](count) and the
\* copy loop, both over auditTrail[i].actor == _actor; no require.
getAuditTrailByActor(actor) ==
    TwoPassFilter(auditTrail,
                  [i \in DOMAIN auditTrail |-> auditTrail[i].actor = actor],
                  ZeroAuditRecord)

\* Variant: the subject query compares the actor field.
getAuditTrailBySubjectAsActor(subject) == getAuditTrailByActor(subject)

\* getAuditTrailBySubject: the same loops over auditTrail[i].subject == _subject.
getAuditTrailBySubject(subject) ==
    TwoPassFilter(auditTrail,
                  [i \in DOMAIN auditTrail |-> auditTrail[i].subject = subject],
                  ZeroAuditRecord)

AddAuditLog ==
    \E sender \in SmallAddr, actor \in SmallAddr, subject \in SmallAddr, tag \in AuditTags :
        /\ Len(auditTrail) < MaxAudit
        /\ addAuditLog(sender, actor, tag[1], subject, tag[2])

\* A later block is mined: block.timestamp advances.
Tick ==
    /\ now < MaxTime
    /\ now' = now + 1
    /\ UNCHANGED <<doctorVars, patientVars, auditVars, running, frame, last>>

AuditNext == AddAuditLog \/ Tick

----------------------------------------------------------------------------
(* Deployment *)

Init ==
    /\ admin = Deployer
    /\ doctors = [a \in Addr |-> IF a = Deployer THEN Doctor("admin", "admin", TRUE)
                                 ELSE NoDoctor]
    /\ doctorAddresses = <<Deployer>>
    /\ doctorPatients = [a \in Addr |-> <<>>]
    /\ doctorPatientAccess = [a \in Addr |-> [b \in Addr |-> FALSE]]
    /\ patientAdmin = Deployer
    /\ patients = [a \in Addr |-> IF a = Deployer THEN Patient("admin", "admin", TRUE)
                                  ELSE NoPatient]
    /\ patientRecords = [a \in Addr |-> <<>>]
    /\ recordIndexes = [h \in Hashes |-> 0]
    /\ auditTrail = <<>>
    /\ now = 0
    /\ running \in Contracts
    /\ frame = NoFrame
    /\ last = Tx("constructor", Deployer, NoAddr, NoAddr, OK)

InitDoctor == Init /\ running = "DoctorManagement"
InitRecords == Init /\ running = "PatientManagement"
InitAudit == Init /\ running = "HealthcareAudit"

\* The access-grant component on its own.
SpecDoctor == InitDoctor /\ [][DoctorNext]_vars

\* The record store on its own.
SpecRecords == InitRecords /\ [][PatientNext]_vars

\* The audit ledger on its own, with block time advancing.
SpecAudit == InitAudit /\ [][AuditNext]_vars

\* The record store called by accounts of every standing: the admin
\* registers a doctor and a patient, doctors are granted access, and any
\* account stores a first version for a patient.
CallerRegisterDoctor ==
    \E d \in Writers : registerDoctor(Deployer, d, "alice", "doctor")
CallerGrant ==
    \E d \in SmallAddr, p \in SmallAddr :
        /\ GrantError(d, p) = OK => TotalGrants < MaxGrants
        /\ addPatientAccess(d, d, p)
CallerRegisterPatient ==
    \E p \in Writers : registerPatient(Deployer, p, "bob", "patient")
CallerAddRecord ==
    \E sender \in Callers, p \in SmallAddr, meta \in Metas :
        /\ AddRecordError(p, NoHash) = OK => TotalRecords < MaxCallerRecords
        /\ addMedicalRecord(sender, p, "Qm1", meta, NoHash)
CallerNext ==
    CallerRegisterDoctor \/ CallerGrant \/ CallerRegisterPatient \/ CallerAddRecord

SpecCallers == InitRecords /\ [][CallerNext]_vars

\* The access-grant component with revokePatientAccess run statement by
\* statement and the attacker's callback re-entering it. Transactions are
\* mined one after the other: no other call starts while one is in progress.
RevokeCall == \E sender \in Addr, d \in Addr, p \in Addr : RevokeEnter(sender, d, p)
ReentryGrant ==
    \E d \in SmallAddr, p \in Addr :
        /\ GrantError(d, p) = OK => TotalGrants < MaxReentryGrants
        /\ addPatientAccess(d, d, p)
ReentryNext ==
    \/ frame = NoFrame /\ CallerRegisterDoctor
    \/ frame = NoFrame /\ ReentryGrant
    \/ RevokeCall
    \/ RevokeClearFlag
    \/ RevokeLoop
    \/ RevokePop
    \/ RevokeEmit
    \/ RevokeReturn
    \/ Reenter

SpecReentry == InitDoctor /\ [][ReentryNext]_vars

\* All three contracts driven together, as the application does: the
\* calls of CallerNext, the patient's revoke and an explicit audit entry.
SystemRevoke ==
    \E d \in SmallAddr, p \in SmallAddr : revokePatientAccess(p, d, p)
SystemAudit ==
    \E actor \in Writers, subject \in SmallAddr :
        /\ Len(auditTrail) < MaxSystemAudit
        /\ addAuditLog(actor, actor, "ACCESS_GRANTED", subject, "granted")
SystemNext == CallerNext \/ SystemRevoke \/ SystemAudit

SpecSystem == InitRecords /\ [][SystemNext]_vars

\* The access-grant component with doctors granting up to MaxReentryGrants
\* patients and every revoke sent by the patient concerned.
RoundTripRevoke ==
    \E d \in SmallAddr, p \in Addr : revokePatientAccess(p, d, p)
RoundTripNext == CallerRegisterDoctor \/ ReentryGrant \/ RoundTripRevoke

SpecRoundTrip == InitDoctor /\ [][RoundTripNext]_vars

Next ==
    \/ running = "DoctorManagement" /\ DoctorNext
    \/ running = "PatientManagement" /\ PatientNext
    \/ running = "HealthcareAudit" /\ AuditNext

\* Every contract, each driven from the deployment state.
Spec == Init /\ [][Next]_vars

----------------------------------------------------------------------------
(* Properties *)

\* C1: in every reachable state of DoctorManagement, isAuthorized(d, p) is
\* true exactly when p occurs in getAuthorizedPatients(d), for all d and p.
C1_FlagIffListed ==
    \A d \in Addr, p \in Addr :
        isAuthorized(d, p) <=> p \in Range(getAuthorizedPatients(d))

\* A revoke has just succeeded and failed calls came before it or not; another
\* grant of the same doctor is still in place.
C1_Witness ==
    /\ last.op = "revokePatientAccess" /\ last.err = OK
    /\ Len(doctorPatients[last.a]) >= 1
    /\ ~isAuthorized(last.a, last.b)

\* C2: the flag of a pair (d, p) goes from true to false only in a successful
\* revokePatientAccess(d, p) sent by p; a revokePatientAccess sent by anyone
\* other than its patient argument reverts and leaves flags and lists as they
\* were, the account that has just created the grant included.
C2_OnlyPatientRevokes ==
    [][ /\ \A d \in Addr, p \in Addr :
              (isAuthorized(d, p) /\ ~isAuthorized(d, p)')
                  => last' = Tx("revokePatientAccess", p, d, p, OK)
        /\ (last'.op = "revokePatientAccess" /\ last'.sender # last'.b)
              => /\ last'.err # OK
                 /\ UNCHANGED <<doctorPatientAccess, doctorPatients>>
        \* the sender of the grant just made tries to revoke it
        /\ (/\ last.op = "addPatientAccess" /\ last.err = OK
            /\ last' = Tx("revokePatientAccess", last.sender, last.a, last.b, last'.err)
            /\ last.sender # last.b)
              => /\ last'.err = OnlyPatient
                 /\ doctorPatientAccess'[last.a][last.b]
      ]_vars

\* The doctor of a standing grant has just tried to revoke it and was refused.
C2_Witness ==
    /\ last.op = "revokePatientAccess" /\ last.sender = last.a
    /\ last.sender # last.b
    /\ last.err = OnlyPatient
    /\ isAuthorized(last.a, last.b)
    /\ last.b \in Range(doctorPatients[last.a])

\* The version chain of record i of patient p: i and every record reached
\* from it by previousVersion links.  A link names a content hash; the link
\* of record k leads to the record of p's list stored before k with that
\* ipfsHash (the newest such one, should p hold the hash more than once).
LinkTarget(p, k) ==
    LET h == patientRecords[p][k].previousVersion
        hits == {j \in 1..(k - 1) : patientRecords[p][j].ipfsHash = h}
    IN  IF h = NoHash \/ hits = {} THEN {}
        ELSE {CHOOSE j \in hits : \A m \in hits : m <= j}

RECURSIVE ChainOf(_, _)
ChainOf(p, S) ==
    LET T == S \cup UNION {LinkTarget(p, k) : k \in S}
    IN  IF T = S THEN S ELSE ChainOf(p, T)

ActiveIn(p, S) == {k \in S : patientRecords[p][k].isActive}

\* C3: in every reachable state of the record store, for every record r of
\* every patient, at most one of r and the records reachable from r through
\* previousVersion links is active.
C3_SingleActivePerChain ==
    \A p \in Addr : \A i \in DOMAIN patientRecords[p] :
        Cardinality(ActiveIn(p, ChainOf(p, {i}))) <= 1

\* C4: the audit trail is append-only: every step that changes it is a
\* successful addAuditLog that adds exactly one entry at the end, and every
\* entry stored before keeps its index and its five fields.
C4_AuditAppendOnly ==
    [][ /\ Len(getAuditTrail') >= Len(getAuditTrail)
        /\ \A i \in DOMAIN auditTrail : getAuditTrail'[i] = getAuditTrail[i]
        /\ auditTrail' # auditTrail
              => /\ Len(auditTrail') = Len(auditTrail) + 1
                 /\ last'.op = "addAuditLog" /\ last'.err = OK
                 /\ auditTrail'[Len(auditTrail')].actor = last'.a
                 /\ auditTrail'[Len(auditTrail')].subject = last'.b
                 /\ auditTrail'[Len(auditTrail')].timestamp = now
      ]_vars

\* Two entries that differ in actor and were logged in different blocks are
\* stored in the order they were logged.
C4_Witness ==
    /\ Len(auditTrail) >= 2
    /\ auditTrail[1].actor # auditTrail[2].actor
    /\ auditTrail[1].timestamp < auditTrail[2].timestamp
    /\ last.op = "addAuditLog"

\* C5: identities are create-once: an address registered as a doctor or as a
\* patient stays registered with the same username and role in every later
\* state, whatever is called.
C5_IdentityCreateOnce ==
    [][ \A a \in Addr :
          /\ doctors[a].isRegistered => doctors'[a] = doctors[a]
          /\ patients[a].isRegistered => patients'[a] = patients[a]
      ]_vars

\* A registered doctor other than the admin has since been named in a
\* successful grant and in a registerDoctor call that tried to register it again.
C5_Witness ==
    /\ last.op = "registerDoctor" /\ last.a # admin /\ last.sender = admin
    /\ doctors[last.a].isRegistered
    /\ last.err # OK
    /\ doctorPatients[last.a] # <<>>

\* C6: registerDoctor and registerPatient sent by any account other than the
\* admin revert with 'Only admin can call this function' and leave the
\* registry as it was, also when the sender is itself registered.
C6_OnlyAdminRegisters ==
    [][ /\ (last'.op = "registerDoctor" /\ last'.sender # admin)
              => /\ last'.err = OnlyAdmin
                 /\ UNCHANGED <<doctors, doctorAddresses>>
        /\ (last'.op = "registerPatient" /\ last'.sender # patientAdmin)
              => /\ last'.err = OnlyAdmin
                 /\ UNCHANGED patients
      ]_vars

\* A registered doctor that is not the admin has just tried to register
\* another, unregistered, account.
C6_Witness ==
    /\ last.op = "registerDoctor" /\ last.sender # admin
    /\ doctors[last.sender].isRegistered
    /\ ~doctors[last.a].isRegistered
    /\ last.err = OnlyAdmin

\* C7: a register call by the admin for an unregistered id stores the given
\* (username, role), which the lookup then returns; a register call by the
\* admin for a registered id reverts with the already-registered error and
\* the lookup returns what it returned before.
C7_RegisterTwiceFails ==
    [][ \A a \in Addr :
          /\ (last'.op = "registerDoctor" /\ last'.sender = admin /\ last'.a = a) =>
                \A prof \in Profiles :
                    registerDoctor(admin, a, prof[1], prof[2])
                        => IF doctors[a].isRegistered
                           THEN /\ last'.err = "Doctor already registered"
                                /\ getDoctor(a)' = getDoctor(a)
                           ELSE /\ last'.err = OK
                                /\ getDoctor(a)' =
                                      [err |-> OK, username |-> prof[1], role |-> prof[2]]
          /\ (last'.op = "registerPatient" /\ last'.sender = patientAdmin /\ last'.a = a) =>
                \A prof \in Profiles :
                    registerPatient(patientAdmin, a, prof[1], prof[2])
                        => IF patients[a].isRegistered
                           THEN /\ last'.err = "Patient already registered"
                                /\ getPatient(a)' = getPatient(a)
                           ELSE /\ last'.err = OK
                                /\ getPatient(a)' =
                                      [err |-> OK, username |-> prof[1], role |-> prof[2]]
      ]_vars

\* The admin has just tried to register again a doctor it registered as
\* ("alice", "doctor"), and the lookup still returns that pair.
C7_Witness ==
    /\ last.op = "registerDoctor" /\ last.sender = admin /\ last.a # admin
    /\ last.err = "Doctor already registered"
    /\ getDoctor(last.a) = [err |-> OK, username |-> "alice", role |-> "doctor"]

\* C8 as stated: for a registered doctor d, revokePatientAccess(d, p) sent by
\* an account other than p reverts with 'Only patient can revoke access'
\* whether or not access is granted.
C8_OtherCallerUnauthorized ==
    (/\ last.op = "revokePatientAccess" /\ last.sender # last.b
     /\ doctors[last.a].isRegistered)
        => last.err = OnlyPatient

\* C8 as the code has it: such a call always reverts, with 'Only patient can
\* revoke access' when access for (d, p) is granted and with 'Access not
\* granted' when it is not.
C8_OtherCallerReverts ==
    (/\ last.op = "revokePatientAccess" /\ last.sender # last.b
     /\ doctors[last.a].isRegistered)
        => last.err = IF isAuthorized(last.a, last.b) THEN OnlyPatient
                      ELSE "Access not granted"

\* An account other than the patient has just tried to revoke a pair of a
\* registered doctor that holds no grant.
C8_Witness ==
    /\ last.op = "revokePatientAccess" /\ last.sender # last.b
    /\ doctors[last.a].isRegistered
    /\ ~isAuthorized(last.a, last.b)
    /\ last.err = "Access not granted"

\* C9: for a registered doctor d and an address p without a grant,
\* addPatientAccess(d, p) succeeds for every sender, after which
\* isAuthorized(d, p) holds and p is in getAuthorizedPatients(d); for a
\* granted pair, revokePatientAccess(d, p) sent by p succeeds, after which
\* isAuthorized(d, p) is false and p is not in getAuthorizedPatients(d).
C9_GrantRevokeDuality ==
    [][ /\ (/\ last'.op = "addPatientAccess"
            /\ doctors[last'.a].isRegistered /\ ~isAuthorized(last'.a, last'.b))
              => /\ last'.err = OK
                 /\ doctorPatientAccess'[last'.a][last'.b]
                 /\ last'.b \in Range(doctorPatients'[last'.a])
        /\ (/\ last'.op = "revokePatientAccess" /\ last'.sender = last'.b
            /\ doctors[last'.a].isRegistered /\ isAuthorized(last'.a, last'.b))
              => /\ last'.err = OK
                 /\ ~doctorPatientAccess'[last'.a][last'.b]
                 /\ last'.b \notin Range(doctorPatients'[last'.a])
      ]_vars

\* A grant has just succeeded that was sent by an account that is neither
\* the doctor, the patient nor the admin, for a patient address that is not
\* a registered patient.
C9_Witness ==
    /\ last.op = "addPatientAccess" /\ last.err = OK
    /\ last.sender \notin {last.a, last.b, admin}
    /\ ~patients[last.b].isRegistered
    /\ isAuthorized(last.a, last.b)

\* C10: addPatientAccess(d, p) reverts with 'Doctor not registered' when d is
\* not registered and with 'Access already granted' when the pair is granted;
\* both leave flags and lists as they were, p staying in the list once.
C10_GrantErrors ==
    [][ last'.op = "addPatientAccess" =>
          /\ ~doctors[last'.a].isRegistered
                => /\ last'.err = "Doctor not registered"
                   /\ UNCHANGED <<doctorPatientAccess, doctorPatients>>
          /\ (doctors[last'.a].isRegistered /\ isAuthorized(last'.a, last'.b))
                => /\ last'.err = "Access already granted"
                   /\ UNCHANGED <<doctorPatientAccess, doctorPatients>>
                   /\ Occurrences(doctorPatients'[last'.a], last'.b) = 1
      ]_vars

\* A grant of a pair that is already granted has just been refused.
C10_Witness ==
    /\ last.op = "addPatientAccess" /\ last.err = "Access already granted"
    /\ Occurrences(doctorPatients[last.a], last.b) = 1

\* C11: for a registered doctor d and a patient p other than d: while the
\* pair is granted, revokePatientAccess(d, p) sent by d reverts with 'Only
\* patient can revoke access' and the grant stays, and the same call sent by
\* p succeeds and clears it; while the pair is not granted (revoked before,
\* or never granted), the call sent by p reverts with 'Access not granted'
\* and changes nothing.
C11_RevokeNotGranted ==
    [][ (last'.op = "revokePatientAccess" /\ doctors[last'.a].isRegistered) =>
          /\ (/\ isAuthorized(last'.a, last'.b)
              /\ last'.sender = last'.a /\ last'.a # last'.b)
                => /\ last'.err = OnlyPatient
                   /\ UNCHANGED doctorVars
                   /\ doctorPatientAccess'[last'.a][last'.b]
          /\ (isAuthorized(last'.a, last'.b) /\ last'.sender = last'.b)
                => /\ last'.err = OK
                   /\ ~doctorPatientAccess'[last'.a][last'.b]
          /\ (~isAuthorized(last'.a, last'.b) /\ last'.sender = last'.b)
                => /\ last'.err = "Access not granted"
                   /\ UNCHANGED doctorVars
      ]_vars

\* The patient has just been refused a revoke of a pair that is not granted,
\* while the doctor still holds a grant for another patient.
C11_Witness ==
    /\ last.op = "revokePatientAccess" /\ last.sender = last.b
    /\ last.a # last.b
    /\ last.err = "Access not granted"
    /\ doctors[last.a].isRegistered
    /\ ~isAuthorized(last.a, last.b)
    /\ Len(getAuthorizedPatients(last.a)) = 1

\* C12: when registered patient p holds no record, addMedicalRecord(p, h1,
\* previousVersion = '') immediately followed by addMedicalRecord(p, h2,
\* previousVersion = h1) leaves getMedicalRecords(p) with exactly two
\* entries, h1 then h2, the first inactive and the second active, and
\* getActiveRecords(p) returns exactly the h2 record.
C12_TwoVersions ==
    [][ \A sender \in Writers, p \in SmallAddr, h2 \in Hashes, meta \in Metas :
          (/\ last.op = "addMedicalRecord" /\ last.err = OK /\ last.a = p
           /\ Len(patientRecords[p]) = 1
           /\ patientRecords[p][1].previousVersion = NoHash
           /\ addMedicalRecord(sender, p, h2, meta, patientRecords[p][1].ipfsHash))
            => /\ last'.err = OK
               /\ getMedicalRecords(p)'.err = OK
               /\ Len(getMedicalRecords(p)'.records) = 2
               /\ getMedicalRecords(p)'.records[1].ipfsHash = patientRecords[p][1].ipfsHash
               /\ ~getMedicalRecords(p)'.records[1].isActive
               /\ getMedicalRecords(p)'.records[2].ipfsHash = h2
               /\ getMedicalRecords(p)'.records[2].isActive
               /\ getMedicalRecords(p)'.records[2].previousVersion
                      = patientRecords[p][1].ipfsHash
               /\ getActiveRecords(p)'.records = <<patientRecords'[p][2]>>
      ]_vars

\* The second version has just been stored on top of the patient's only
\* record, while the other patient holds records of their own.
C12_Witness ==
    /\ last.op = "addMedicalRecord" /\ last.err = OK
    /\ Len(patientRecords[last.a]) = 2
    /\ patientRecords[last.a][2].previousVersion = patientRecords[last.a][1].ipfsHash
    /\ patientRecords[last.a][1].previousVersion = NoHash
    /\ ~patientRecords[last.a][1].isActive
    /\ getActiveRecords(last.a).records = <<patientRecords[last.a][2]>>
    /\ \E q \in SmallAddr \ {last.a} : Len(patientRecords[q]) > 0

\* The hashes of the records patient p holds.
HashesOf(p) == {patientRecords[p][i].ipfsHash : i \in DOMAIN patientRecords[p]}

\* C13: addMedicalRecord(p, ..., previousVersion = h) for a registered
\* patient p, with a non-empty h that is the hash of no record of p, fails
\* and leaves the store unchanged: no record of p is deactivated and none
\* is appended.
C13_UnknownPreviousVersionFails ==
    [][ \A sender \in Writers, p \in SmallAddr, ipfsHash \in Hashes, meta \in Metas,
           h \in Hashes :
          (/\ patients[p].isRegistered
           /\ h \notin HashesOf(p)
           /\ addMedicalRecord(sender, p, ipfsHash, meta, h))
            => /\ last'.err # OK
               /\ UNCHANGED <<patientRecords, recordIndexes>>
      ]_vars

\* C14: a successful addMedicalRecord(p, ..., previousVersion = h), h being
\* the hash of a record p holds, sets isActive = false on a record of p
\* whose ipfsHash is h and changes the isActive flag of no record whose
\* ipfsHash differs from h, whatever was stored before for p or for another
\* patient.
C14_LookupPerPatient ==
    [][ \A sender \in Writers, p \in SmallAddr, ipfsHash \in Hashes, meta \in Metas,
           h \in Hashes :
          (/\ h \in HashesOf(p)
           /\ addMedicalRecord(sender, p, ipfsHash, meta, h)
           /\ last'.err = OK)
            => /\ \E i \in DOMAIN patientRecords[p] :
                    /\ patientRecords[p][i].ipfsHash = h
                    /\ ~patientRecords'[p][i].isActive
               /\ \A q \in Addr : \A i \in DOMAIN patientRecords[q] :
                    patientRecords[q][i].ipfsHash # h
                       => patientRecords'[q][i].isActive = patientRecords[q][i].isActive
      ]_vars

\* C15: a record whose isActive is false stays at its index with isActive
\* false in every later state: no call sets it back to true.
C15_InactiveIsTerminal ==
    [][ \A p \in Addr : \A i \in DOMAIN patientRecords[p] :
          ~patientRecords[p][i].isActive
             => /\ i \in DOMAIN patientRecords'[p]
                /\ ~patientRecords'[p][i].isActive
      ]_vars

\* A record that was already inactive has been the target of a later
\* update: two versions stored after it both name a previous version while
\* only one record of the patient is inactive.
C15_Witness ==
    \E p \in SmallAddr :
        /\ Len(patientRecords[p]) = 3
        /\ ~patientRecords[p][1].isActive
        /\ patientRecords[p][2].isActive /\ patientRecords[p][3].isActive
        /\ patientRecords[p][2].previousVersion # NoHash
        /\ patientRecords[p][3].previousVersion # NoHash

\* The fields of a record other than isActive.
Content(r) == [r EXCEPT !.isActive = TRUE]

\* C16 without its clause on isActive: a successful addMedicalRecord appends
\* one record at the end of the patient's list, every step leaves each
\* stored record at its index with its fields other than isActive, and
\* getMedicalRecords returns the stored list.
AppendKeepsContent ==
        /\ \A q \in Addr :
             /\ Len(patientRecords'[q]) =
                    IF last'.op = "addMedicalRecord" /\ last'.err = OK /\ last'.a = q
                    THEN Len(patientRecords[q]) + 1 ELSE Len(patientRecords[q])
             /\ \A i \in DOMAIN patientRecords[q] :
                    Content(patientRecords'[q][i]) = Content(patientRecords[q][i])
             /\ patients'[q].isRegistered
                    => getMedicalRecords(q)'.records = patientRecords'[q]

C16_AppendKeepsContent == [][AppendKeepsContent]_vars

\* C16: records are immutable except for isActive: a successful
\* addMedicalRecord appends one record at the end, every stored record
\* keeps its index and its fields other than isActive, getMedicalRecords
\* returns all records in insertion order, and the isActive of a record
\* changes only in an addMedicalRecord call for its patient whose
\* previousVersion is that record's ipfsHash.
C16_ImmutableExceptActive ==
    [][ /\ AppendKeepsContent
        /\ \A sender \in Writers, p \in SmallAddr, ipfsHash \in Hashes, meta \in Metas,
              previousVersion \in PrevHashes :
             addMedicalRecord(sender, p, ipfsHash, meta, previousVersion)
                => \A q \in Addr : \A i \in DOMAIN patientRecords[q] :
                      patientRecords'[q][i].isActive # patientRecords[q][i].isActive
                         => /\ q = p
                            /\ previousVersion = patientRecords[q][i].ipfsHash
      ]_vars

\* C17: addMedicalRecord for a registered patient with empty
\* previousVersion succeeds for every caller, registered doctor or not,
\* holding a grant for the patient or not; the appended record has doctor =
\* caller and isActive = true and is in getActiveRecords(patient).
C17_NoGrantCheckOnCreate ==
    [][ \A sender \in Callers, p \in SmallAddr, meta \in Metas :
          (/\ patients[p].isRegistered
           /\ addMedicalRecord(sender, p, "Qm1", meta, NoHash))
            => /\ last'.err = OK
               /\ Len(patientRecords'[p]) = Len(patientRecords[p]) + 1
               /\ patientRecords'[p][Len(patientRecords'[p])].doctor = sender
               /\ patientRecords'[p][Len(patientRecords'[p])].isActive
               /\ getActiveRecords(p)'.err = OK
               /\ patientRecords'[p][Len(patientRecords'[p])]
                      \in Range(getActiveRecords(p)'.records)
      ]_vars

\* An account that is no registered doctor and holds no grant has just
\* stored a record for a patient who already has one stored by a registered
\* doctor holding a grant for that patient.
C17_Witness ==
    /\ last.op = "addMedicalRecord" /\ last.err = OK
    /\ ~doctors[last.sender].isRegistered
    /\ ~isAuthorized(last.sender, last.a)
    /\ Len(patientRecords[last.a]) = 2
    /\ patientRecords[last.a][2].doctor = last.sender
    /\ doctors[patientRecords[last.a][1].doctor].isRegistered
    /\ isAuthorized(patientRecords[last.a][1].doctor, last.a)
    /\ patientRecords[last.a][1].doctor # admin

\* What the two reads return: the error for an address that is no
\* registered patient, the empty list for a registered patient without
\* records.
ReadsRequireRegistered ==
    \A p \in Addr :
        /\ ~patients[p].isRegistered
              => /\ getMedicalRecords(p).err = "Patient not registered"
                 /\ getActiveRecords(p).err = "Patient not registered"
        /\ (patients[p].isRegistered /\ patientRecords[p] = <<>>)
              => /\ getMedicalRecords(p) = [err |-> OK, records |-> <<>>]
                 /\ getActiveRecords(p) = [err |-> OK, records |-> <<>>]

\* C18: addMedicalRecord, getMedicalRecords and getActiveRecords for an
\* address that is no registered patient fail with 'Patient not
\* registered', the failed addMedicalRecord changing no state; for a
\* registered patient without records both reads return the empty list.
C18_RegisteredPatientRequired ==
    [][ /\ ReadsRequireRegistered
        /\ ReadsRequireRegistered'
        /\ \A sender \in Writers, p \in SmallAddr, ipfsHash \in Hashes, meta \in Metas,
              previousVersion \in PrevHashes :
             (/\ ~patients[p].isRegistered
              /\ addMedicalRecord(sender, p, ipfsHash, meta, previousVersion))
               => /\ last'.err = "Patient not registered"
                  /\ UNCHANGED <<doctorVars, patientVars, auditVars>>
      ]_vars

\* A record has just been refused for an address that is no registered
\* patient, while the registered patient holds records.
C18_Witness ==
    /\ last.op = "addMedicalRecord" /\ last.err = "Patient not registered"
    /\ ~patients[last.a].isRegistered
    /\ patientRecords[last.a] = <<>>
    /\ getActiveRecords(last.a).err = "Patient not registered"
    /\ Len(patientRecords[Deployer]) >= 2

\* C19: for every registered patient p, in every reachable state,
\* getActiveRecords(p) is getMedicalRecords(p) with the records whose
\* isActive is false left out, the others in the same order.
C19_ActiveIsFilteredList ==
    \A p \in Addr :
        patients[p].isRegistered
           => /\ getActiveRecords(p).err = OK
              /\ getActiveRecords(p).records =
                    SelectSeq(getMedicalRecords(p).records, LAMBDA r : r.isActive)

\* A patient holds an inactive record between two active ones that differ,
\* and getActiveRecords returns the two active ones in stored order.
C19_Witness ==
    \E p \in SmallAddr :
        /\ Len(patientRecords[p]) >= 3
        /\ patientRecords[p][1].isActive
        /\ ~patientRecords[p][2].isActive
        /\ patientRecords[p][3].isActive
        /\ patientRecords[p][1] # patientRecords[p][3]
        /\ SubSeq(getActiveRecords(p).records, 1, 2)
              = <<patientRecords[p][1], patientRecords[p][3]>>

\* C20: getAuditTrailByActor(a) is auditTrail restricted to the entries
\* whose actor is a, getAuditTrailBySubject(s) to those whose subject is s,
\* in stored order, nothing added and nothing dropped; with no matching
\* entry the result is the empty sequence.
C20_AuditQueriesFilter ==
    \A a \in Addr :
        /\ getAuditTrailByActor(a) = SelectSeq(auditTrail, LAMBDA r : r.actor = a)
        /\ getAuditTrailBySubject(a) = SelectSeq(auditTrail, LAMBDA r : r.subject = a)
        /\ (\A i \in DOMAIN auditTrail : auditTrail[i].actor # a)
              => getAuditTrailByActor(a) = <<>>
        /\ (\A i \in DOMAIN auditTrail : auditTrail[i].subject # a)
              => getAuditTrailBySubject(a) = <<>>

\* The trail holds entries of one actor around an entry of another: the
\* actor query returns the first and third entry, the subject query for
\* the same account returns something else, and the query for an account
\* that never acted returns the empty sequence.
C20_Witness ==
    /\ Len(auditTrail) = 3
    /\ auditTrail[1].actor = auditTrail[3].actor
    /\ auditTrail[2].actor # auditTrail[1].actor
    /\ auditTrail[1] # auditTrail[3]
    /\ getAuditTrailByActor(auditTrail[1].actor) = <<auditTrail[1], auditTrail[3]>>
    /\ getAuditTrailBySubject(auditTrail[1].actor) = <<auditTrail[2]>>
    /\ getAuditTrailByActor("A2") = <<>>

\* C21: addAuditLog succeeds for every caller and every argument
\* combination, an empty actionType and details and an actor other than the
\* caller included, and stores actor, actionType, subject and details as
\* passed, with the current block time, as the new last entry.
C21_AuditLogUnrestricted ==
    [][ \A sender \in SmallAddr, actor \in SmallAddr, subject \in SmallAddr,
           tag \in AuditTags :
          addAuditLog(sender, actor, tag[1], subject, tag[2])
            => /\ last'.err = OK
               /\ Len(auditTrail') = Len(auditTrail) + 1
               /\ auditTrail'[Len(auditTrail')] =
                     [actor |-> actor, actionType |-> tag[1], subject |-> subject,
                      details |-> tag[2], timestamp |-> now]
               /\ SubSeq(auditTrail', 1, Len(auditTrail)) = auditTrail
      ]_vars

\* An entry with empty actionType and details, whose actor is neither the
\* caller nor the subject, has just been stored at a later block time than
\* the entry before it.
C21_Witness ==
    /\ last.op = "addAuditLog" /\ last.err = OK
    /\ Len(auditTrail) >= 2
    /\ auditTrail[Len(auditTrail)].actor = last.a
    /\ last.a # last.sender /\ last.a # last.b
    /\ auditTrail[Len(auditTrail)].actionType = ""
    /\ auditTrail[Len(auditTrail)].details = ""
    /\ auditTrail[Len(auditTrail)].timestamp = now
    /\ auditTrail[Len(auditTrail) - 1].timestamp < now

\* C22: in a revokePatientAccess(d, p) call that passed its requires, the
\* flag is false from the first statement on, before the list is touched
\* and before the event; every re-entrant revokePatientAccess(d, p)
\* attempted after that statement fails with 'Access not granted'; and when
\* the call returns the flag is false, p is absent from the doctor's list
\* and the list is the one on entry with p removed once by swap and pop.
C22_CommitThenNotify ==
    /\ frame.pc \in {"loop", "pop", "emit", "done"}
          => /\ ~doctorPatientAccess[frame.d][frame.p]
             /\ \A k \in DOMAIN frame.attempts :
                   frame.attempts[k] = "Access not granted"
    /\ frame.pc = "loop" => doctorPatients[frame.d] = frame.before
    /\ frame.pc = "done"
          => /\ frame.p \notin Range(doctorPatients[frame.d])
             /\ Len(doctorPatients[frame.d]) = Len(frame.before) - 1
             /\ doctorPatients[frame.d] = SwapAndPop(frame.before, frame.p)

\* A revoke has returned after the callback re-entered it at each point of
\* the body, for a doctor who keeps another patient.
C22_Witness ==
    /\ frame.pc = "done"
    /\ Len(frame.attempts) = MaxAttack
    /\ Len(frame.before) = 2
    /\ frame.before[1] = frame.p
    /\ Len(doctorPatients[frame.d]) = 1
    /\ ~isAuthorized(frame.d, frame.p)
    /\ last = Tx("revokePatientAccess", frame.p, frame.d, frame.p, OK)

\* C23: every failing call of registerDoctor, registerPatient,
\* addPatientAccess, revokePatientAccess or addMedicalRecord leaves the
\* state of all three contracts as it was before the call; this includes
\* the addMedicalRecord call that fails while handling previousVersion,
\* when the index found for it lies outside the patient's array.
C23_FailureIsAtomic ==
    [][ /\ last'.err # OK => UNCHANGED <<doctorVars, patientVars, auditVars>>
        /\ last'.op = "addMedicalRecord" =>
             \A sender \in Writers, p \in SmallAddr, ipfsHash \in Hashes,
                meta \in Metas, previousVersion \in Hashes :
               (/\ patients[p].isRegistered
                /\ OldIndex(p, previousVersion) >= Len(patientRecords[p])
                /\ addMedicalRecord(sender, p, ipfsHash, meta, previousVersion))
                 => /\ last'.err = "Panic(0x32)"
                    /\ UNCHANGED <<doctorVars, patientVars, auditVars>>
      ]_vars

\* addMedicalRecord has just failed on the array access for a registered
\* patient who holds a record: the index found for previousVersion is that
\* of another patient's record.
C23_Witness ==
    /\ last.op = "addMedicalRecord" /\ last.err = "Panic(0x32)"
    /\ patients[last.a].isRegistered
    /\ Len(patientRecords[last.a]) = 1
    /\ patientRecords[last.a][1].isActive
    /\ \E h \in Hashes : recordIndexes[h] >= 1

\* C24: a successful revokePatientAccess(d, p) shortens doctorPatients[d] by
\* one element: the slot that held p receives the former last element, the
\* last slot is dropped, every other slot keeps its element, and the list
\* holds exactly the former patients other than p.
C24_SwapWithLastAndTruncate ==
    frame.pc = "done"
       => LET old == frame.before
              new == doctorPatients[frame.d]
              n == Len(old)
          IN  /\ Len(new) = n - 1
              /\ \E i \in 1..n :
                    /\ old[i] = frame.p
                    /\ \A j \in 1..(n - 1) :
                          new[j] = IF j = i THEN old[n] ELSE old[j]
              /\ Range(new) = Range(old) \ {frame.p}

\* A revoke of the patient held in the first of three slots has returned:
\* the former third patient is now first, the second is where it was.
C24_Witness ==
    /\ frame.pc = "done"
    /\ Len(frame.before) = 3
    /\ frame.before[1] = frame.p
    /\ doctorPatients[frame.d] = <<frame.before[3], frame.before[2]>>

\* C25: a successful revokePatientAccess(d, p) changes isAuthorized for the
\* pair (d, p) only: the flag of every other pair is unchanged, every other
\* patient is in doctorPatients[d] after the call iff it was before, and
\* the list of every other doctor is unchanged.
C25_RevocationIsSelective ==
    [][ (last'.op = "revokePatientAccess" /\ last'.err = OK) =>
          /\ isAuthorized(last'.a, last'.b)
          /\ ~doctorPatientAccess'[last'.a][last'.b]
          /\ \A d \in Addr, p \in Addr :
                (d # last'.a \/ p # last'.b)
                   => doctorPatientAccess'[d][p] = doctorPatientAccess[d][p]
          /\ \A p \in Addr \ {last'.b} :
                p \in Range(doctorPatients'[last'.a])
                   <=> p \in Range(doctorPatients[last'.a])
          /\ \A d \in Addr \ {last'.a} : doctorPatients'[d] = doctorPatients[d]
      ]_vars

\* A patient has just revoked one doctor while another doctor keeps the
\* grant for the same patient.
C25_Witness ==
    /\ last.op = "revokePatientAccess" /\ last.err = OK
    /\ ~isAuthorized(last.a, last.b)
    /\ \E d \in Addr \ {last.a} :
          /\ isAuthorized(d, last.b)
          /\ getAuthorizedPatients(d) = <<last.b>>

\* The patient's own revoke passes the three requires for every pair that
\* is granted.
CanRevoke ==
    \A d \in Addr, p \in Addr : isAuthorized(d, p) => RevokeError(p, d, p) = OK

\* C26: in every reachable state in which isAuthorized(d, p) holds,
\* revokePatientAccess(d, p) sent by p succeeds and clears the grant; no
\* call of any account leads to a state in which a granted pair cannot be
\* revoked by its patient.
C26_PatientCanAlwaysRevoke ==
    [][ /\ CanRevoke
        /\ CanRevoke'
        /\ last'.op = "revokePatientAccess" =>
             \A d \in Addr, p \in Addr :
               (isAuthorized(d, p) /\ revokePatientAccess(p, d, p))
                  => /\ last'.err = OK
                     /\ ~doctorPatientAccess'[d][p]
      ]_vars

\* A patient has just revoked the grant held by the admin, who keeps a
\* grant for another patient.
C26_Witness ==
    /\ last.op = "revokePatientAccess" /\ last.err = OK
    /\ last.sender = last.b /\ last.b # admin
    /\ last.a = admin
    /\ Len(getAuthorizedPatients(admin)) = 1
    /\ ~isAuthorized(admin, last.b)

\* What the reads return for a key that is not registered: false and the
\* empty list from isAuthorized and getAuthorizedPatients, an error from
\* getDoctor and getPatient.
ReadsOfUnregistered ==
    /\ \A d \in Addr :
          ~doctors[d].isRegistered
             => /\ \A p \in Addr : isAuthorized(d, p) = FALSE
                /\ getAuthorizedPatients(d) = <<>>
                /\ getDoctor(d).err = "Doctor not registered"
    /\ \A p \in Addr :
          ~patients[p].isRegistered => getPatient(p).err = "Patient not registered"

\* C27: isAuthorized and getAuthorizedPatients never fail and return false
\* and the empty list for a doctor key that was never registered; getDoctor
\* and getPatient fail for an unregistered key and otherwise return the
\* (username, role) given at registration, in the state after the
\* registration and in every later state.
C27_ReadsAndLookups ==
    [][ /\ ReadsOfUnregistered
        /\ \A a \in Addr :
             /\ doctors[a].isRegistered => getDoctor(a)' = getDoctor(a)
             /\ patients[a].isRegistered => getPatient(a)' = getPatient(a)
        /\ (last'.op = "registerDoctor" /\ last'.err = OK) =>
             \A sender \in Addr, d \in Addr, prof \in Profiles :
               registerDoctor(sender, d, prof[1], prof[2])
                  => getDoctor(d)' = [err |-> OK, username |-> prof[1], role |-> prof[2]]
        /\ (last'.op = "registerPatient" /\ last'.err = OK) =>
             \A sender \in SmallAddr, p \in SmallAddr, prof \in Profiles :
               registerPatient(sender, p, prof[1], prof[2])
                  => getPatient(p)' = [err |-> OK, username |-> prof[1], role |-> prof[2]]
      ]_vars

\* One doctor registered as ("bob", "patient") holds two grants and is
\* returned as registered, while another key was never registered and reads
\* as unauthorized with an empty list.
C27_Witness ==
    \E d \in Addr, u \in Addr :
        /\ getDoctor(d) = [err |-> OK, username |-> "bob", role |-> "patient"]
        /\ Len(getAuthorizedPatients(d)) = 2
        /\ getDoctor(u).err = "Doctor not registered"
        /\ getAuthorizedPatients(u) = <<>>
        /\ \A p \in Addr : ~isAuthorized(u, p)

\* The lineage of the records S of patient p: S closed under
\* previousVersion links followed in either direction.
RECURSIVE LineageOf(_, _)
LineageOf(p, S) ==
    LET T == S \cup UNION {LinkTarget(p, k) : k \in S}
               \cup {k \in DOMAIN patientRecords[p] : LinkTarget(p, k) \cap S # {}}
    IN  IF T = S THEN S ELSE LineageOf(p, T)

\* The most recently added record among S.
Newest(S) == CHOOSE m \in S : \A k \in S : k <= m

\* C28: for every record r of every patient, the lineage of r (r and the
\* records linked to it through previousVersion in either direction) holds
\* an active record, namely its most recently added member, and
\* getActiveRecords returns that record.
C28_LineageHeadIsActive ==
    \A p \in Addr : \A i \in DOMAIN patientRecords[p] :
        LET head == patientRecords[p][Newest(LineageOf(p, {i}))]
        IN  /\ head.isActive
            /\ head \in Range(getActiveRecords(p).records)

C30_DisjointState ==
    [][ /\ last'.op \in {"registerDoctor", "addPatientAccess", "revokePatientAccess"}
             => UNCHANGED <<patientVars, auditVars>>
        /\ last'.op \in {"registerPatient", "addMedicalRecord"}
             => UNCHANGED <<doctorVars, auditVars>>
        /\ last'.op = "addAuditLog" => UNCHANGED <<doctorVars, patientVars>>
        /\ auditTrail' # auditTrail => last'.op = "addAuditLog"
      ]_vars

\* A patient has just revoked a doctor who stored a record for that
\* patient: the record is still there and active, and the audit trail
\* holds the one entry that was logged by an explicit call.
C30_Witness ==
    /\ last.op = "revokePatientAccess" /\ last.err = OK
    /\ ~isAuthorized(last.a, last.b)
    /\ \E i \in DOMAIN patientRecords[last.b] :
          /\ patientRecords[last.b][i].doctor = last.a
          /\ patientRecords[last.b][i].isActive
    /\ last.a # admin
    /\ Len(auditTrail) = 1

\* C31: in every reachable state each address occurs at most once in
\* doctorPatients[d], for every doctor d, whatever grants and revokes were
\* made.
C31_NoDuplicatePatient ==
    \A d \in Addr, p \in Addr : Occurrences(doctorPatients[d], p) <= 1

\* A grant has just put a second patient behind another one in a doctor's
\* list, each of them once.
C31_Witness ==
    /\ last.op = "addPatientAccess" /\ last.err = OK
    /\ Len(doctorPatients[last.a]) = 2
    /\ doctorPatients[last.a][2] = last.b
    /\ doctorPatients[last.a][1] # last.b
    /\ Occurrences(doctorPatients[last.a], last.b) = 1

\* The state the three constructors leave.
DeploymentState ==
    /\ admin = Deployer /\ patientAdmin = Deployer
    /\ getDoctor(Deployer) = [err |-> OK, username |-> "admin", role |-> "admin"]
    /\ getPatient(Deployer) = [err |-> OK, username |-> "admin", role |-> "admin"]
    /\ getAllDoctors = <<Deployer>>
    /\ \A a \in Addr :
          /\ a # Deployer => ~doctors[a].isRegistered /\ ~patients[a].isRegistered
          /\ getAuthorizedPatients(a) = <<>>
          /\ \A b \in Addr : ~isAuthorized(a, b)
          /\ patientRecords[a] = <<>>
    /\ getAuditTrail = <<>>

\* C32: in the initial state the deployer is admin of DoctorManagement and
\* of PatientManagement and registered in both as ("admin", "admin"),
\* getAllDoctors is [admin], there are no grants, no records and no audit
\* entries; in every later state the admin of both is still the deployer
\* and still registered.
C32_DeploymentAndAdmin ==
    /\ DeploymentState
    /\ [](/\ admin = Deployer /\ patientAdmin = Deployer
          /\ getDoctor(admin) = [err |-> OK, username |-> "admin", role |-> "admin"]
          /\ getPatient(patientAdmin) = [err |-> OK, username |-> "admin", role |-> "admin"])

\* Two more doctors were registered and one holds a grant for the admin;
\* the admin is still the deployer.
C32_Witness ==
    /\ Len(getAllDoctors) = 3
    /\ admin = Deployer
    /\ \E d \in Addr \ {admin} : isAuthorized(d, admin)
    /\ last.op = "addPatientAccess" /\ last.err = OK

\* C33: registerDoctor by the admin for an address that is no registered
\* doctor succeeds whether or not the address is a registered patient and
\* leaves the patient registry unchanged; registerPatient likewise with
\* the roles exchanged; each lookup returns the data given to its own
\* registry.
C33_RegistriesIndependent ==
    [][ /\ last'.op = "registerDoctor" =>
             /\ UNCHANGED patients
             /\ \A d \in Writers :
                  (~doctors[d].isRegistered /\ registerDoctor(Deployer, d, "alice", "doctor"))
                     => /\ last'.err = OK
                        /\ getDoctor(d)' = [err |-> OK, username |-> "alice", role |-> "doctor"]
                        /\ getPatient(d)' = getPatient(d)
        /\ last'.op = "registerPatient" =>
             /\ UNCHANGED doctors
             /\ \A p \in Writers :
                  (~patients[p].isRegistered /\ registerPatient(Deployer, p, "bob", "patient"))
                     => /\ last'.err = OK
                        /\ getPatient(p)' = [err |-> OK, username |-> "bob", role |-> "patient"]
                        /\ getDoctor(p)' = getDoctor(p)
      ]_vars

\* An address that was already a registered doctor has just been
\* registered as a patient: each lookup returns its own registry's data.
C33_Witness ==
    /\ last.op = "registerPatient" /\ last.err = OK
    /\ getDoctor(last.a) = [err |-> OK, username |-> "alice", role |-> "doctor"]
    /\ getPatient(last.a) = [err |-> OK, username |-> "bob", role |-> "patient"]

\* C34: in every reachable state an address that holds an access flag or a
\* non-empty doctorPatients list is a registered doctor.
C34_GrantsOnlyForRegisteredDoctors ==
    \A d \in Addr :
        ((\E p \in Addr : isAuthorized(d, p)) \/ getAuthorizedPatients(d) # <<>>)
            => doctors[d].isRegistered

\* A doctor registered after deployment holds a grant while another
\* address is unregistered and holds none.
C34_Witness ==
    \E d \in Addr \ {admin}, u \in Addr :
        /\ doctors[d].isRegistered
        /\ \E p \in Addr : isAuthorized(d, p) /\ p \in Range(getAuthorizedPatients(d))
        /\ ~doctors[u].isRegistered
        /\ getAuthorizedPatients(u) = <<>>
        /\ last.op = "addPatientAccess" /\ last.a = u /\ last.err # OK

\* C35: a successful addPatientAccess(d, p) starts with d registered and
\* (d, p) not granted, sets that one flag and appends p to doctorPatients[d],
\* and what the revoke loop makes of the new list is the list before the
\* grant; revokePatientAccess(d, p) sent by p right after it succeeds,
\* clears that one flag and drops the last slot of doctorPatients[d]. Both
\* steps leave every other flag, list and registration alone, so the two
\* together restore the access-grant state, order included.
C35_GrantRevokeRoundTrip ==
    [][ \A d \in Addr, p \in Addr :
         /\ (/\ last'.op = "addPatientAccess" /\ last'.err = OK
             /\ last'.a = d /\ last'.b = p)
               => /\ doctors[d].isRegistered
                  /\ ~isAuthorized(d, p)
                  /\ doctorPatientAccess' = [doctorPatientAccess EXCEPT ![d][p] = TRUE]
                  /\ doctorPatients' = [doctorPatients EXCEPT ![d] = Append(@, p)]
                  /\ UNCHANGED <<admin, doctors, doctorAddresses>>
                  /\ RevokeError(p, d, p)' = OK
                  /\ SwapAndPop(doctorPatients'[d], p) = doctorPatients[d]
                  /\ ClearFlag(doctorPatientAccess', d, p) = doctorPatientAccess
         /\ (/\ last.op = "addPatientAccess" /\ last.err = OK
             /\ last.a = d /\ last.b = p
             /\ last'.op = "revokePatientAccess" /\ last'.sender = p
             /\ last'.a = d /\ last'.b = p)
               => /\ last'.err = OK
                  /\ doctorPatientAccess' = [doctorPatientAccess EXCEPT ![d][p] = FALSE]
                  /\ doctorPatients' =
                        [doctorPatients EXCEPT ![d] = SubSeq(@, 1, Len(@) - 1)]
                  /\ UNCHANGED <<admin, doctors, doctorAddresses>>
      ]_vars

\* A patient has just revoked a doctor other than the admin who keeps two
\* other patients in the list: the list had three entries before.
C35_Witness ==
    /\ last.op = "revokePatientAccess" /\ last.err = OK
    /\ Len(getAuthorizedPatients(last.a)) = 2
    /\ getAuthorizedPatients(last.a)[1] # getAuthorizedPatients(last.a)[2]
    /\ last.b \notin Range(getAuthorizedPatients(last.a))
    /\ ~isAuthorized(last.a, last.b)
    /\ last.a # admin

\* C36: in every reachable state the last element of every non-empty
\* patientRecords[p] has isActive = true, and whenever getMedicalRecords(p)
\* returns a non-empty list getActiveRecords(p) returns a non-empty list
\* too, ending with that newest record.
C36_NewestRecordActive ==
    \A p \in DOMAIN patientRecords :
        /\ patientRecords[p] # <<>> => patientRecords[p][Len(patientRecords[p])].isActive
        /\ getMedicalRecords(p).records # <<>> =>
              /\ getActiveRecords(p).err = OK
              /\ getActiveRecords(p).records # <<>>
              /\ getActiveRecords(p).records[Len(getActiveRecords(p).records)] =
                    getMedicalRecords(p).records[Len(getMedicalRecords(p).records)]

\* A new version has just been stored for a registered patient whose list
\* now holds an inactive record before the newest one.
C36_Witness ==
    /\ last.op = "addMedicalRecord" /\ last.err = OK
    /\ Len(getMedicalRecords(last.a).records) >= 2
    /\ \E i \in 1..(Len(patientRecords[last.a]) - 1) : ~patientRecords[last.a][i].isActive
    /\ patientRecords[last.a][Len(patientRecords[last.a])].previousVersion # NoHash
    /\ Len(getActiveRecords(last.a).records) < Len(getMedicalRecords(last.a).records)

\* C37: in every reachable state getAllDoctors holds exactly the addresses
\* with doctors[a].isRegistered, each once, the admin first; a successful
\* registerDoctor appends the new address at the end, and every other call,
\* a failed registerDoctor included, leaves the list as it was.
C37_DoctorListMirrorsRegistry ==
    /\ [](/\ \A a \in Addr :
               /\ (a \in Range(getAllDoctors)) <=> doctors[a].isRegistered
               /\ Occurrences(getAllDoctors, a) <= 1
           /\ Range(getAllDoctors) \subseteq Addr
           /\ getAllDoctors # <<>>
           /\ getAllDoctors[1] = admin)
    /\ [][ IF last'.op = "registerDoctor" /\ last'.err = OK
           THEN getAllDoctors' = Append(getAllDoctors, last'.a)
           ELSE getAllDoctors' = getAllDoctors ]_vars

\* With three doctors listed, the admin first, a registerDoctor call has
\* just failed for an address already in the list.
C37_Witness ==
    /\ last.op = "registerDoctor" /\ last.err = "Doctor already registered"
    /\ Len(getAllDoctors) = 3
    /\ getAllDoctors[1] = admin
    /\ getAllDoctors[3] = last.a

\* C38: an addMedicalRecord call for patient p, successful or reverted and
\* whatever its previousVersion, leaves patientRecords[q] of every other
\* patient q as it was: same length, same records, same isActive flags,
\* and the same answers from getMedicalRecords(q) and getActiveRecords(q).
C38_OtherPatientsUntouched ==
    [][ last'.op = "addMedicalRecord" =>
          \A q \in (DOMAIN patientRecords) \ {last'.a} :
              /\ Len(patientRecords'[q]) = Len(patientRecords[q])
              /\ \A i \in 1..Len(patientRecords[q]) :
                    /\ patientRecords'[q][i].isActive = patientRecords[q][i].isActive
                    /\ patientRecords'[q][i] = patientRecords[q][i]
              /\ getMedicalRecords(q)' = getMedicalRecords(q)
              /\ getActiveRecords(q)' = getActiveRecords(q)
      ]_vars

\* A new version has just been stored for a patient whose list holds an
\* inactive record, naming as previous version a hash that another
\* patient's list holds in a record that is still active.
C38_Witness ==
    /\ last.op = "addMedicalRecord" /\ last.err = OK
    /\ patientRecords[last.a][Len(patientRecords[last.a])].previousVersion # NoHash
    /\ \E i \in 1..(Len(patientRecords[last.a]) - 1) : ~patientRecords[last.a][i].isActive
    /\ \E q \in (DOMAIN patientRecords) \ {last.a} :
          /\ patientRecords[q] # <<>>
          /\ \E j \in 1..Len(patientRecords[q]) :
                /\ patientRecords[q][j].isActive
                /\ patientRecords[q][j].ipfsHash =
                      patientRecords[last.a][Len(patientRecords[last.a])].previousVersion

====
